---- MODULE Spec2Model ----
(***************************************************************************)
(* Model of KalmanFilter<D> (src/src/kalman.rs): the prior/posterior state *)
(* machine driven by new, predict and update.  f32 arithmetic is modelled  *)
(* exactly, as arithmetic over normalised rationals <<num, den>>, den > 0; *)
(* matrices are sequences of rows, vectors are D x 1 matrices.  Option<T>  *)
(* is a sequence of length 0 (None) or 1 (Some).                           *)
(***************************************************************************)
EXTENDS Integers, Sequences, FiniteSets, TLC

VARIABLES F, Q, R, x_pre, P_pre, x_post, P_post, panicked, hist

vars == <<F, Q, R, x_pre, P_pre, x_post, P_post, panicked, hist>>

\* Largest number of predict/update calls made on one filter.
MaxCalls == 3

----------------------------------------------------------------------------
\* Scalars

Abs(n) == IF n < 0 THEN -n ELSE n

RECURSIVE Gcd(_, _)
Gcd(a, b) == IF b = 0 THEN a ELSE Gcd(b, a % b)

Norm(n, d) ==
    LET g == Gcd(Abs(n), Abs(d))
        s == IF d < 0 THEN -1 ELSE 1
    IN  <<(s * n) \div g, Abs(d) \div g>>

Rat(n) == <<n, 1>>

\* Common factors are cancelled before multiplying, to keep the intermediate
\* integers small.
RAdd(a, b) ==
    LET g == Gcd(a[2], b[2])
    IN  Norm(a[1] * (b[2] \div g) + b[1] * (a[2] \div g), (a[2] \div g) * b[2])
RSub(a, b) == RAdd(a, <<-b[1], b[2]>>)
RMul(a, b) ==
    LET g1 == Gcd(Abs(a[1]), b[2])
        g2 == Gcd(Abs(b[1]), a[2])
    IN  Norm((a[1] \div g1) * (b[1] \div g2), (a[2] \div g2) * (b[2] \div g1))
RDiv(a, b) == RMul(a, Norm(b[2], b[1]))
RNeg(a) == <<-a[1], a[2]>>
RIsZero(a) == a[1] = 0

----------------------------------------------------------------------------
\* Matrices

NRows(A) == Len(A)
NCols(A) == Len(A[1])

\* The nr x nc matrix (nr, nc <= 2) M stored as explicit tuples, so that
\* every entry is computed once.
ArrayStorage(nr, nc, M) ==
    IF nr = 1
    THEN IF nc = 1 THEN << <<M[1][1]>> >>
         ELSE << <<M[1][1], M[1][2]>> >>
    ELSE IF nc = 1 THEN << <<M[1][1]>>, <<M[2][1]>> >>
         ELSE << <<M[1][1], M[1][2]>>, <<M[2][1], M[2][2]>> >>

IntMat(M) ==
    ArrayStorage(Len(M), Len(M[1]),
                 [i \in 1..Len(M) |-> [j \in 1..Len(M[1]) |-> Rat(M[i][j])]])

identity(n) ==
    ArrayStorage(n, n, [i \in 1..n |-> [j \in 1..n |-> IF i = j THEN Rat(1) ELSE Rat(0)]])

RECURSIVE DotTo(_, _, _, _, _)
DotTo(A, B, i, j, k) ==
    IF k = 0 THEN Rat(0)
    ELSE RAdd(DotTo(A, B, i, j, k - 1), RMul(A[i][k], B[k][j]))

MatMul(A, B) ==
    ArrayStorage(NRows(A), NCols(B),
                 [i \in 1..NRows(A) |-> [j \in 1..NCols(B) |-> DotTo(A, B, i, j, NRows(B))]])
MatAdd(A, B) ==
    ArrayStorage(NRows(A), NCols(A),
                 [i \in 1..NRows(A) |-> [j \in 1..NCols(A) |-> RAdd(A[i][j], B[i][j])]])
MatSub(A, B) ==
    ArrayStorage(NRows(A), NCols(A),
                 [i \in 1..NRows(A) |-> [j \in 1..NCols(A) |-> RSub(A[i][j], B[i][j])]])
transpose(A) ==
    ArrayStorage(NCols(A), NRows(A),
                 [i \in 1..NCols(A) |-> [j \in 1..NRows(A) |-> A[j][i]]])
div(A, c) ==
    ArrayStorage(NRows(A), NCols(A),
                 [i \in 1..NRows(A) |-> [j \in 1..NCols(A) |-> RDiv(A[i][j], c)]])

IsSymmetric(A) == A = transpose(A)

None == <<>>
Some(v) == <<v>>
unwrap(o) == o[1]

\* nalgebra's try_inverse for 1x1 and 2x2 matrices: None when the
\* determinant is zero, the closed-form inverse otherwise.
try_inverse(S) ==
    IF NRows(S) = 1
    THEN IF RIsZero(S[1][1]) THEN None
         ELSE Some(<< <<RDiv(Rat(1), S[1][1])>> >>)
    ELSE LET det == RSub(RMul(S[1][1], S[2][2]), RMul(S[2][1], S[1][2]))
         IN  IF RIsZero(det) THEN None
             ELSE Some(<< <<RDiv(S[2][2], det), RNeg(RDiv(S[1][2], det))>>,
                         <<RNeg(RDiv(S[2][1], det)), RDiv(S[1][1], det)>> >>)

----------------------------------------------------------------------------
\* Inputs (D = 2, measurement dimension D2 in {1, 2})

Fs == { IntMat(<< <<1, 1>>, <<0, 1>> >>) }
Qs == { IntMat(<< <<1, 0>>, <<0, 1>> >>), IntMat(<< <<0, 0>>, <<0, 0>> >>) }
Rs == { IntMat(<< <<1, 0>>, <<0, 1>> >>), IntMat(<< <<2, 0>>, <<0, 2>> >>) }
x_inits == { IntMat(<< <<0>>, <<0>> >>), IntMat(<< <<1>>, <<2>> >>) }
P_inits == { IntMat(<< <<1, 0>>, <<0, 1>> >>),
             IntMat(<< <<2, 1>>, <<1, 1>> >>),
             IntMat(<< <<0, 0>>, <<0, 1>> >>),
             IntMat(<< <<1, 1>>, <<0, 1>> >>) }

ZeroVec == IntMat(<< <<0>>, <<0>> >>)
Us == { None, Some(ZeroVec), Some(IntMat(<< <<1>>, <<2>> >>)) }

Measurements ==
    { [H |-> IntMat(<< <<1, 0>> >>), Rm |-> IntMat(<< <<1>> >>), Z |-> IntMat(<< <<3>> >>)],
      [H |-> IntMat(<< <<0, 1>> >>), Rm |-> IntMat(<< <<2>> >>), Z |-> IntMat(<< <<-1>> >>)],
      [H |-> IntMat(<< <<1, 0>> >>), Rm |-> IntMat(<< <<0>> >>), Z |-> IntMat(<< <<2>> >>)],
      [H |-> IntMat(<< <<1, 0>>, <<0, 1>> >>), Rm |-> IntMat(<< <<2, 1>>, <<1, 2>> >>),
       Z |-> IntMat(<< <<1>>, <<3>> >>)],
      [H |-> IntMat(<< <<0, 0>> >>), Rm |-> IntMat(<< <<0>> >>), Z |-> IntMat(<< <<1>> >>)] }

----------------------------------------------------------------------------
\* KalmanFilter::new

new(Fm, Qm, Rm, x_init, P_init) ==
    [F |-> Fm, Q |-> Qm, R |-> Rm,
     x_pre |-> x_init, P_pre |-> P_init,
     x_post |-> Some(x_init), P_post |-> Some(P_init)]

Init ==
    \E Fm \in Fs, Qm \in Qs, Rm \in Rs, x_init \in x_inits, P_init \in P_inits :
        LET f == new(Fm, Qm, Rm, x_init, P_init)
        IN  /\ F = f.F
            /\ Q = f.Q
            /\ R = f.R
            /\ x_pre = f.x_pre
            /\ P_pre = f.P_pre
            /\ x_post = f.x_post
            /\ P_post = f.P_post
            /\ panicked = "no"
            /\ hist = <<>>

\* The fields of the filter as they stand before a call.
Fields ==
    [R |-> R, x_pre |-> x_pre, P_pre |-> P_pre, x_post |-> x_post, P_post |-> P_post]

Call(op, u, m) ==
    [op |-> op, u |-> u, H |-> m.H, Rm |-> m.Rm, Z |-> m.Z, pre |-> Fields]

NoMeasurement == [H |-> <<>>, Rm |-> <<>>, Z |-> <<>>]

----------------------------------------------------------------------------
\* KalmanFilter::predict

\* propagate_P with the transpose of F forgotten: F * P * F + Q
propagate_P_noT(Fm, P, Qm) == MatAdd(MatMul(MatMul(Fm, P), Fm), Qm)

\* F * P * F^T + Q
propagate_P(Fm, P, Qm) == MatAdd(MatMul(MatMul(Fm, P), transpose(Fm)), Qm)

\* finish_P_post with the symmetrization applied before the multiplication
finish_P_post_symfirst(Ppost, Ppre) ==
    MatMul(div(MatAdd(Ppost, transpose(Ppost)), Rat(2)), Ppre)

\* Finish calc for P_post and symmetrize
finish_P_post(Ppost, Ppre) ==
    LET P1 == MatMul(Ppost, Ppre)
    IN  div(MatAdd(P1, transpose(P1)), Rat(2))

\* prior_from_posterior whose None arm forgets the propagation by F
prior_from_posterior_noF(Fm, xpost, u) ==
    IF u # None THEN MatAdd(MatMul(Fm, xpost), unwrap(u))
    ELSE xpost

\* Update priors: match u
prior_from_posterior(Fm, xpost, u) ==
    IF u # None THEN MatAdd(MatMul(Fm, xpost), unwrap(u))
    ELSE MatMul(Fm, xpost)

\* predict leaving one of the posterior fields in place
x_post_kept(xpost) == xpost
P_post_kept(Ppost) == Ppost

\* Set posteriors to none
x_post_cleared(xpost) == None
P_post_cleared(Ppost) == None

predict_fields(Fm, Qm, f, u) ==
    IF f.x_post = None /\ f.P_post = None
    THEN [x_pre |-> MatMul(Fm, f.x_pre),
          P_pre |-> propagate_P(Fm, f.P_pre, Qm),
          x_post |-> f.x_post, P_post |-> f.P_post, panicked |-> "no"]
    ELSE IF f.x_post # None /\ f.P_post # None
    THEN LET Pfin == finish_P_post(unwrap(f.P_post), f.P_pre)
         IN  [x_pre |-> prior_from_posterior(Fm, unwrap(f.x_post), u),
              P_pre |-> propagate_P(Fm, Pfin, Qm),
              x_post |-> x_post_cleared(f.x_post),
              P_post |-> P_post_cleared(f.P_post), panicked |-> "no"]
    ELSE [x_pre |-> f.x_pre, P_pre |-> f.P_pre,
          x_post |-> f.x_post, P_post |-> f.P_post, panicked |-> "invariant"]

predict(u) ==
    /\ panicked = "no"
    /\ Len(hist) < MaxCalls
    /\ LET r == predict_fields(F, Q, Fields, u)
       IN  /\ x_pre' = r.x_pre
           /\ P_pre' = r.P_pre
           /\ x_post' = r.x_post
           /\ P_post' = r.P_post
           /\ panicked' = r.panicked
    /\ hist' = Append(hist, Call("predict", u, NoMeasurement))
    /\ UNCHANGED <<F, Q, R>>

----------------------------------------------------------------------------
\* KalmanFilter::update

innovation(H, Z, xpre) == MatSub(Z, MatMul(H, xpre))

innovation_cov(H, Rm, Ppre) == MatAdd(MatMul(MatMul(H, Ppre), transpose(H)), Rm)

gain(Ppre, H, Sinv) == MatMul(MatMul(Ppre, transpose(H)), Sinv)

\* update_x_post whose Some arm restarts from the prior instead of accumulating
update_x_post_noacc(xpost, xpre, K, y) ==
    Some(MatAdd(xpre, MatMul(K, y)))

update_x_post(xpost, xpre, K, y) ==
    IF xpost # None THEN Some(MatAdd(unwrap(xpost), MatMul(K, y)))
    ELSE Some(MatAdd(xpre, MatMul(K, y)))

\* update_P_post whose None arm adds K * H to the identity
update_P_post_plus(Ppost, K, H) ==
    IF Ppost # None THEN Some(MatSub(unwrap(Ppost), MatMul(K, H)))
    ELSE Some(MatAdd(identity(NRows(K)), MatMul(K, H)))

\* update_P_post whose Some arm applies the textbook sequential form
\* (I - K * H) * P_post
update_P_post_sequential(Ppost, K, H) ==
    IF Ppost # None
    THEN Some(MatMul(MatSub(identity(NRows(K)), MatMul(K, H)), unwrap(Ppost)))
    ELSE Some(MatSub(identity(NRows(K)), MatMul(K, H)))

update_P_post(Ppost, K, H) ==
    IF Ppost # None THEN Some(MatSub(unwrap(Ppost), MatMul(K, H)))
    ELSE Some(MatSub(identity(NRows(K)), MatMul(K, H)))

\* update that finalizes eagerly: the prior is overwritten by the posterior
update_fields_eager(f, H, Rm, Z) ==
    LET y == innovation(H, Z, f.x_pre)
        S == innovation_cov(H, Rm, f.P_pre)
        Sinv == try_inverse(S)
    IN  IF Sinv = None
        THEN [x_pre |-> f.x_pre, P_pre |-> f.P_pre,
              x_post |-> f.x_post, P_post |-> f.P_post, panicked |-> "singular"]
        ELSE LET K == gain(f.P_pre, H, unwrap(Sinv))
                 xp == update_x_post(f.x_post, f.x_pre, K, y)
             IN  [x_pre |-> unwrap(xp), P_pre |-> f.P_pre,
                  x_post |-> xp,
                  P_post |-> update_P_post(f.P_post, K, H), panicked |-> "no"]

\* update that initialises the posterior state before inverting S
update_fields_partial(f, H, Rm, Z) ==
    LET y == innovation(H, Z, f.x_pre)
        S == innovation_cov(H, Rm, f.P_pre)
        Sinv == try_inverse(S)
    IN  IF Sinv = None
        THEN [x_pre |-> f.x_pre, P_pre |-> f.P_pre,
              x_post |-> Some(f.x_pre), P_post |-> f.P_post, panicked |-> "singular"]
        ELSE LET K == gain(f.P_pre, H, unwrap(Sinv))
             IN  [x_pre |-> f.x_pre, P_pre |-> f.P_pre,
                  x_post |-> update_x_post(f.x_post, f.x_pre, K, y),
                  P_post |-> update_P_post(f.P_post, K, H), panicked |-> "no"]

\* update that reads the stored field R instead of its argument when the
\* measurement has the dimension of the state
update_fields_fieldR(f, H, Rm, Z) ==
    LET y == innovation(H, Z, f.x_pre)
        S == innovation_cov(H, IF NRows(Rm) = NRows(f.R) THEN f.R ELSE Rm, f.P_pre)
        Sinv == try_inverse(S)
    IN  IF Sinv = None
        THEN [x_pre |-> f.x_pre, P_pre |-> f.P_pre,
              x_post |-> f.x_post, P_post |-> f.P_post, panicked |-> "singular"]
        ELSE LET K == gain(f.P_pre, H, unwrap(Sinv))
             IN  [x_pre |-> f.x_pre, P_pre |-> f.P_pre,
                  x_post |-> update_x_post(f.x_post, f.x_pre, K, y),
                  P_post |-> update_P_post(f.P_post, K, H), panicked |-> "no"]

update_fields(f, H, Rm, Z) ==
    LET y == innovation(H, Z, f.x_pre)
        S == innovation_cov(H, Rm, f.P_pre)
        Sinv == try_inverse(S)
    IN  IF Sinv = None
        THEN [x_pre |-> f.x_pre, P_pre |-> f.P_pre,
              x_post |-> f.x_post, P_post |-> f.P_post, panicked |-> "singular"]
        ELSE LET K == gain(f.P_pre, H, unwrap(Sinv))
             IN  [x_pre |-> f.x_pre, P_pre |-> f.P_pre,
                  x_post |-> update_x_post(f.x_post, f.x_pre, K, y),
                  P_post |-> update_P_post(f.P_post, K, H), panicked |-> "no"]

update(H, Rm, Z) ==
    /\ panicked = "no"
    /\ Len(hist) < MaxCalls
    /\ LET r == update_fields(Fields, H, Rm, Z)
       IN  /\ x_pre' = r.x_pre
           /\ P_pre' = r.P_pre
           /\ x_post' = r.x_post
           /\ P_post' = r.P_post
           /\ panicked' = r.panicked
    /\ hist' = Append(hist, Call("update", None, [H |-> H, Rm |-> Rm, Z |-> Z]))
    /\ UNCHANGED <<F, Q, R>>

----------------------------------------------------------------------------

Next ==
    \/ \E u \in Us : predict(u)
    \/ \E m \in Measurements : update(m.H, m.Rm, m.Z)

Spec == Init /\ [][Next]_vars

----------------------------------------------------------------------------
\* Reading the call history

NCalls == Len(hist)
Last == hist[NCalls]
Returned == panicked = "no"

\* Number of update calls that returned since the most recent predict, or
\* since construction when no predict has happened yet.
RECURSIVE UpdatesSince(_)
UpdatesSince(k) ==
    IF k = 0 THEN 0
    ELSE IF hist[k].op = "predict" THEN 0
    ELSE IF k = NCalls /\ ~Returned THEN UpdatesSince(k - 1)
    ELSE 1 + UpdatesSince(k - 1)

PosteriorDefined == x_post # None /\ P_post # None

\* The P_init the filter was constructed with.
PInit == IF NCalls = 0 THEN P_pre ELSE hist[1].pre.P_pre

\* P_init, Q and the R of every update call so far are symmetric.
InputsSymmetric ==
    /\ IsSymmetric(PInit)
    /\ IsSymmetric(Q)
    /\ \A k \in 1..NCalls : hist[k].op = "update" => IsSymmetric(hist[k].Rm)

\* The gain and innovation of an update call, from the prior it saw.
CallS(c) == MatAdd(MatMul(MatMul(c.H, c.pre.P_pre), transpose(c.H)), c.Rm)
CallSingular(c) == try_inverse(CallS(c)) = None
CallK(c) == MatMul(MatMul(c.pre.P_pre, transpose(c.H)), unwrap(try_inverse(CallS(c))))
CallY(c) == MatSub(c.Z, MatMul(c.H, c.pre.x_pre))

----------------------------------------------------------------------------
\* C1: the posterior is defined iff at least one update has been applied
\* since the most recent predict, or since construction; the freshly
\* constructed filter has no posterior.
C1_PosteriorDefinedness ==
    PosteriorDefined <=> UpdatesSince(NCalls) > 0

\* C2: one update(H, R, Z) immediately followed by predict without input
\* (the update being the only one since the last predict or construction, the
\* covariance inputs symmetric) leaves the prior of the classical recurrence
\* computed from the prior held before the update:
\* x = F(x_pre + K y), P = F((I - K H) P_pre)F^T + Q.
C2_SingleUpdateThenPredict ==
    (/\ NCalls >= 2
     /\ InputsSymmetric
     /\ Last.op = "predict"
     /\ Last.u = None
     /\ hist[NCalls - 1].op = "update"
     /\ (NCalls = 2 \/ hist[NCalls - 2].op = "predict"))
    => LET c == hist[NCalls - 1]
           K == CallK(c)
           xc == MatAdd(c.pre.x_pre, MatMul(K, CallY(c)))
           Pc == MatMul(MatSub(identity(NRows(K)), MatMul(K, c.H)), c.pre.P_pre)
       IN  /\ x_pre = MatMul(F, xc)
           /\ P_pre = MatAdd(MatMul(MatMul(F, Pc), transpose(F)), Q)

\* C3 (as stated): with symmetric P_init, Q and per-call R, after every
\* predict and update call P_pre is symmetric and, when the posterior is
\* defined, the stored P_post is symmetric.
C3_SymmetryStored ==
    (InputsSymmetric /\ NCalls >= 1)
    => /\ IsSymmetric(P_pre)
       /\ (P_post # None => IsSymmetric(unwrap(P_post)))

\* C3 (amended): with symmetric P_init, Q and per-call R, after every predict
\* and update call P_pre is symmetric and, when the posterior is defined, the
\* product P_post * P_pre that predict will finalize is symmetric (the stored
\* P_post itself need not be).
C3_SymmetryFinalized ==
    (InputsSymmetric /\ NCalls >= 1)
    => /\ IsSymmetric(P_pre)
       /\ (P_post # None => IsSymmetric(MatMul(unwrap(P_post), P_pre)))

C3_Witness ==
    /\ InputsSymmetric
    /\ NCalls >= 2
    /\ Returned
    /\ Last.op = "update"
    /\ hist[1].op = "predict"
    /\ ~IsSymmetric(unwrap(P_post))
    /\ IsSymmetric(MatMul(unwrap(P_post), P_pre))

\* C4: a predict call given input u sets prior.x to F x + u, where x is the
\* posterior state if a posterior is pending and the prior state otherwise.
C4_InputAppliedEveryPredict ==
    (NCalls >= 1 /\ Last.op = "predict" /\ Last.u # None)
    => LET x == IF Last.pre.x_post # None THEN unwrap(Last.pre.x_post)
                ELSE Last.pre.x_pre
       IN  x_pre = MatAdd(MatMul(F, x), unwrap(Last.u))

\* C5: when S = H P_pre H^T + R is not invertible, update reports the
\* failure as a recoverable result and does not abort.
C5_SingularIsRecoverable ==
    (NCalls >= 1 /\ Last.op = "update" /\ CallSingular(Last))
    => panicked = "no"

\* C6: predict without input and predict with the zero input produce the same
\* prior state, prior covariance and posterior definedness: every predict
\* called with one of the two leaves the fields the other would have left.
C6_NoneEqualsZeroInput ==
    (NCalls >= 1 /\ Last.op = "predict" /\ Last.u \in {None, Some(ZeroVec)})
    => LET other == IF Last.u = None THEN Some(ZeroVec) ELSE None
           r == predict_fields(F, Q, Last.pre, other)
       IN  /\ x_pre = r.x_pre
           /\ P_pre = r.P_pre
           /\ x_post = r.x_post
           /\ P_post = r.P_post
           /\ panicked = r.panicked

C6_Witness ==
    /\ NCalls >= 2
    /\ Last.op = "predict"
    /\ Last.u = Some(ZeroVec)
    /\ hist[NCalls - 1].op = "update"
    /\ Last.pre.x_post # None
    /\ x_pre # ZeroVec
    /\ x_pre # unwrap(Last.pre.x_post)

\* C7: after every predict call that returns the posterior is undefined
\* (x_post and P_post both None), after every update call that returns it is
\* defined (both Some), whatever the state before.
C7_Transitions ==
    (NCalls >= 1 /\ Returned)
    => /\ Last.op = "predict" => (x_post = None /\ P_post = None)
       /\ Last.op = "update" => (x_post # None /\ P_post # None)

C7_Witness ==
    /\ NCalls >= 3
    /\ Returned
    /\ hist[1].op = "predict"
    /\ hist[2].op = "update"
    /\ hist[3].op = "predict"
    /\ hist[2].pre.x_post = None
    /\ hist[3].pre.x_post # None
    /\ x_post = None

\* C8: x_post and P_post are either both present or both absent in every
\* reachable state, also after an update that aborted on a singular S, and
\* the two panic arms of predict are never taken.
C8_PairConsistency ==
    /\ (x_post = None) <=> (P_post = None)
    /\ panicked # "invariant"

C8_Witness ==
    /\ NCalls >= 2
    /\ hist[1].op = "predict"
    /\ Last.op = "update"
    /\ panicked = "singular"
    /\ x_post = None
    /\ P_post = None

C10_DeferredFinalization ==
    (/\ NCalls >= 1
     /\ Last.op = "predict"
     /\ Last.pre.x_post # None
     /\ Last.pre.P_post # None)
    => LET M1 == MatMul(unwrap(Last.pre.P_post), Last.pre.P_pre)
           M2 == div(MatAdd(M1, transpose(M1)), Rat(2))
           Fx == MatMul(F, unwrap(Last.pre.x_post))
       IN  /\ x_pre = IF Last.u = None THEN Fx ELSE MatAdd(Fx, unwrap(Last.u))
           /\ P_pre = MatAdd(MatMul(MatMul(F, M2), transpose(F)), Q)
           /\ x_post = None
           /\ P_post = None
           /\ Returned

C10_Witness ==
    /\ NCalls >= 3
    /\ Last.op = "predict"
    /\ hist[NCalls - 1].op = "update"
    /\ hist[NCalls - 2].op = "update"
    /\ Last.pre.P_post # None
    /\ ~IsSymmetric(unwrap(Last.pre.P_post))
    /\ ~IsSymmetric(MatMul(unwrap(Last.pre.P_post), Last.pre.P_pre))
    /\ P_post = None

----------------------------------------------------------------------------
\* The gain and innovation of call c computed from a given prior (xp, Pp).

GainFrom(Pp, c) ==
    LET S == MatAdd(MatMul(MatMul(c.H, Pp), transpose(c.H)), c.Rm)
    IN  MatMul(MatMul(Pp, transpose(c.H)), unwrap(try_inverse(S)))

InnovationFrom(xp, c) == MatSub(c.Z, MatMul(c.H, xp))

\* Index of the most recent predict call, 0 when there is none.
RECURSIVE LastPredictAt(_)
LastPredictAt(k) ==
    IF k = 0 THEN 0
    ELSE IF hist[k].op = "predict" THEN k
    ELSE LastPredictAt(k - 1)

\* xp + sum of K_i y_i and I - sum of K_i H_i over the calls p+1 .. k, every
\* gain and innovation taken from the one prior (xp, Pp).
RECURSIVE AccX(_, _, _, _)
AccX(k, p, xp, Pp) ==
    IF k = p THEN xp
    ELSE MatAdd(AccX(k - 1, p, xp, Pp),
                MatMul(GainFrom(Pp, hist[k]), InnovationFrom(xp, hist[k])))

RECURSIVE AccP(_, _, _)
AccP(k, p, Pp) ==
    IF k = p THEN identity(NRows(Pp))
    ELSE MatSub(AccP(k - 1, p, Pp), MatMul(GainFrom(Pp, hist[k]), hist[k].H))

\* C11: an update(H, R, Z) called when no posterior is defined sets
\* posterior.x = x_pre + K y and posterior.P = I - K H (the identity minus
\* K H, not multiplied by P_pre), with y, S and K taken from the prior.
C11_FirstUpdateForm ==
    (/\ NCalls >= 1
     /\ Last.op = "update"
     /\ Returned
     /\ Last.pre.x_post = None
     /\ Last.pre.P_post = None)
    => LET K == GainFrom(Last.pre.P_pre, Last)
           y == InnovationFrom(Last.pre.x_pre, Last)
       IN  /\ x_post = Some(MatAdd(Last.pre.x_pre, MatMul(K, y)))
           /\ P_post = Some(MatSub(identity(NRows(K)), MatMul(K, Last.H)))

C11_Witness ==
    /\ NCalls >= 2
    /\ Last.op = "update"
    /\ Returned
    /\ Last.pre.x_post = None
    /\ P_post # None
    /\ P_pre # identity(NRows(P_pre))
    /\ unwrap(P_post) # MatMul(unwrap(P_post), P_pre)
    /\ unwrap(x_post) # x_pre

\* C12: k >= 1 update calls made after a predict with no predict in between
\* leave posterior.x = x_pre + sum K_i y_i and posterior.P = I - sum K_i H_i,
\* every y_i and K_i computed from the same prior left by that predict, never
\* from the running posterior; measurement dimensions may differ.
C12_AccumulateForm ==
    LET p == LastPredictAt(NCalls)
    IN  (p >= 1 /\ p < NCalls /\ Returned)
        => LET xp == hist[p + 1].pre.x_pre
               Pp == hist[p + 1].pre.P_pre
           IN  /\ x_post = Some(AccX(NCalls, p, xp, Pp))
               /\ P_post = Some(AccP(NCalls, p, Pp))

C12_Witness ==
    /\ NCalls >= 3
    /\ Returned
    /\ LastPredictAt(NCalls) >= 1
    /\ NCalls - LastPredictAt(NCalls) >= 2
    /\ NRows(Last.H) # NRows(hist[NCalls - 1].H)
    /\ x_post # Last.pre.x_post
    /\ unwrap(Last.pre.x_post) # x_pre

\* C13: every update call leaves x_pre and P_pre, and the model matrices F
\* and Q, exactly as they were before the call.
C13_UpdateKeepsPrior ==
    [][(NCalls' = NCalls + 1 /\ Last'.op = "update")
       => (x_pre' = x_pre /\ P_pre' = P_pre /\ F' = F /\ Q' = Q)]_vars

C13_Witness ==
    /\ NCalls >= 3
    /\ Returned
    /\ hist[1].op = "predict"
    /\ hist[2].op = "update"
    /\ hist[3].op = "update"
    /\ x_pre = hist[2].pre.x_pre
    /\ P_pre = hist[2].pre.P_pre
    /\ unwrap(x_post) # x_pre

\* The fields r of a filter whose stored R is Rv.
WithR(r, Rv) ==
    [R |-> Rv, x_pre |-> r.x_pre, P_pre |-> r.P_pre,
     x_post |-> r.x_post, P_post |-> r.P_post]

\* C14: when S = H P_pre H^T + R is not invertible, update fails before
\* writing any field: x_pre, P_pre, x_post and P_post hold the values they had
\* before the call.
C14_NoPartialUpdate ==
    (NCalls >= 1 /\ Last.op = "update" /\ CallSingular(Last))
    => /\ panicked = "singular"
       /\ x_pre = Last.pre.x_pre
       /\ P_pre = Last.pre.P_pre
       /\ x_post = Last.pre.x_post
       /\ P_post = Last.pre.P_post

C14_Witness ==
    /\ NCalls >= 3
    /\ Last.op = "update"
    /\ CallSingular(Last)
    /\ hist[NCalls - 1].op = "update"
    /\ hist[NCalls - 2].op = "predict"
    /\ x_post # None
    /\ x_post # Some(x_pre)
    /\ x_post = Last.pre.x_post

\* C15: two updates that return, applied in either order, yield the same
\* posterior state and posterior covariance, and therefore the same prior
\* after the next predict.
C15_UpdatesCommute ==
    /\ (/\ NCalls >= 2
        /\ Returned
        /\ Last.op = "update"
        /\ hist[NCalls - 1].op = "update")
       => LET c1 == hist[NCalls - 1]
              c2 == Last
              a == update_fields(c1.pre, c2.H, c2.Rm, c2.Z)
              b == update_fields(WithR(a, R), c1.H, c1.Rm, c1.Z)
          IN  /\ b.panicked = "no"
              /\ x_post = b.x_post
              /\ P_post = b.P_post
    /\ (/\ NCalls >= 3
        /\ Returned
        /\ Last.op = "predict"
        /\ hist[NCalls - 1].op = "update"
        /\ hist[NCalls - 2].op = "update")
       => LET c1 == hist[NCalls - 2]
              c2 == hist[NCalls - 1]
              a == update_fields(c1.pre, c2.H, c2.Rm, c2.Z)
              b == update_fields(WithR(a, R), c1.H, c1.Rm, c1.Z)
              r == predict_fields(F, Q, WithR(b, R), Last.u)
          IN  /\ x_pre = r.x_pre
              /\ P_pre = r.P_pre

C15_Witness ==
    /\ NCalls >= 3
    /\ Returned
    /\ Last.op = "predict"
    /\ hist[NCalls - 1].op = "update"
    /\ hist[NCalls - 2].op = "update"
    /\ hist[NCalls - 1].H # hist[NCalls - 2].H
    /\ NRows(hist[NCalls - 1].H) # NRows(hist[NCalls - 2].H)
    /\ Last.pre.x_post # hist[NCalls - 1].pre.x_post
    /\ hist[NCalls - 1].pre.x_post # hist[NCalls - 2].pre.x_post

\* C16: the R passed to KalmanFilter::new has no influence: a filter that
\* differs only in its stored R holds the same prior and posterior after
\* construction and after every predict and update call.
C16_ConstructorRUnused ==
    \A Ro \in Rs :
        /\ NCalls = 0
           => LET t == new(F, Q, Ro, x_pre, P_pre)
              IN  /\ t.x_pre = x_pre
                  /\ t.P_pre = P_pre
                  /\ t.x_post = x_post
                  /\ t.P_post = P_post
        /\ NCalls >= 1
           => LET t == WithR(Last.pre, Ro)
                  r == IF Last.op = "predict"
                       THEN predict_fields(F, Q, t, Last.u)
                       ELSE update_fields(t, Last.H, Last.Rm, Last.Z)
              IN  /\ r.x_pre = x_pre
                  /\ r.P_pre = P_pre
                  /\ r.x_post = x_post
                  /\ r.P_post = P_post
                  /\ r.panicked = panicked

C16_Witness ==
    /\ NCalls >= 2
    /\ Returned
    /\ Last.op = "update"
    /\ NRows(Last.Rm) = NRows(R)
    /\ Last.Rm # R
    /\ hist[1].op = "predict"
    /\ unwrap(x_post) # x_pre
====
